---------------------------- MODULE Spec2Model ----------------------------
(***************************************************************************)
(* The open-addressed, double-hashed string table of src/hash_table.c:     *)
(* ht_new, ht_insert, ht_search, ht_delete, ht_resize, ht_del_hash_table.  *)
(*                                                                         *)
(* A key is the sequence of its character codes, a value an opaque string. *)
(* A slot of the items array is a pointer: NULL, the address of the        *)
(* static HT_DELETED_ITEM, or a heap item owning copies of key and value.  *)
(* A table is the struct ht_hash_table: size, count, items (the field      *)
(* size_index of src/hash_table.h is never written or read by the code).   *)
(*                                                                         *)
(* A call either returns, or runs away (its probe loop finds neither NULL  *)
(* nor its key in a whole period of the probe sequence and goes on until   *)
(* the attempt arithmetic overflows), or has undefined behaviour in        *)
(* ht_resize's final ht_del_hash_table, after which the process either     *)
(* goes on or dies.                                                        *)
(***************************************************************************)
EXTENDS Integers, Sequences, FiniteSets, TLC

HT_INITIAL_BASE_SIZE == 53
HT_PRIME_1 == 151
HT_PRIME_2 == 163

\* Number of bulk keys the caller inserts (keys B(0) .. B(MaxBulk-1)).
MaxBulk == 78

\* Number of bulk keys of the short fill and drain.
MaxFill == 40

\* Number of times the caller deletes the hot key while filling and draining.
MaxHotDel == 1

\* The probe sequence is walked for all pairs of hash values at every prime
\* up to this one, and at the minimum capacity.
MaxProbePrime == 13

----------------------------------------------------------------------------
(* prime.c is not part of the sources at hand; the table only relies on    *)
(* next_prime(x) being the smallest prime >= x.                            *)

is_prime(x) == x >= 2 /\ \A d \in 2..(x - 1) : d * d > x \/ x % d # 0

RECURSIVE next_prime(_)
next_prime(x) == IF is_prime(x) THEN x ELSE next_prime(x + 1)

----------------------------------------------------------------------------
(* Slots and items.                                                        *)

NULL == [ptr |-> "NULL", key |-> <<>>, value |-> ""]

HT_DELETED_ITEM == [ptr |-> "DELETED", key |-> <<>>, value |-> ""]

ht_new_item(k, v) == [ptr |-> "ITEM", key |-> k, value |-> v]

IsLive(item) == item # NULL /\ item # HT_DELETED_ITEM

\* What a call hands back: the table as the call left it; fault "runaway"
\* when a probe loop of the call never meets its exit condition; ub when
\* ht_resize's destruction of the transient table read out of bounds or
\* handed the sentinel to ht_del_item; log, the rebuilds done.
Ret(t, fault, ub, log) == [ht |-> t, fault |-> fault, ub |-> ub, log |-> log]

ht_new_sized(base_size) ==
    LET size == next_prime(base_size)
    IN  [size |-> size, count |-> 0, items |-> [i \in 0..(size - 1) |-> NULL]]

ht_new == ht_new_sized(HT_INITIAL_BASE_SIZE)

----------------------------------------------------------------------------
(* Hashing.  A key is the sequence of its chars as the build sees them:   *)
(* -128 .. 127 where char is signed.  pow(a, n) is exact in a double and   *)
(* fits a long for the keys used here (at most two characters, n <= 3).    *)

pow(x, y) == x ^ y

\* The % of C on a positive modulus: the remainder has the sign of a.
rem(a, m) == IF a >= 0 THEN a % m ELSE -((-a) % m)

RECURSIVE ht_hash_loop(_, _, _, _, _)
ht_hash_loop(s, a, m, i, hash) ==
    IF i >= Len(s) THEN hash
    ELSE ht_hash_loop(s, a, m, i + 1,
                      rem(hash + pow(a, Len(s) - i + 1) * s[i + 1], m))

ht_hash(s, a, m) == ht_hash_loop(s, a, m, 0, 0)

\* The return expression of ht_get_hash.
probe_index(hash_a, hash_b, attempt, num_buckets) ==
    rem(hash_a + attempt * (hash_b + 1), num_buckets)

ht_get_hash(s, num_buckets, attempt) ==
    probe_index(ht_hash(s, HT_PRIME_1, num_buckets),
                ht_hash(s, HT_PRIME_2, num_buckets), attempt, num_buckets)

----------------------------------------------------------------------------
(* ht_del_hash_table walks i = 0 .. size-1 of items and hands every        *)
(* non-NULL pointer to ht_del_item.  oob: the indices it reads beyond the  *)
(* array; sentinel: the slots holding &HT_DELETED_ITEM, which is not a     *)
(* heap object; released: the slots whose heap item it frees.              *)

ht_del_hash_table(t) ==
    LET visited == 0..(t.size - 1)
        inside  == visited \cap DOMAIN t.items
    IN  [oob      |-> visited \ DOMAIN t.items,
         sentinel |-> {i \in inside : t.items[i] = HT_DELETED_ITEM},
         released |-> {i \in inside : IsLive(t.items[i])},
         leaked   |-> {i \in DOMAIN t.items \ visited : IsLive(t.items[i])}]

----------------------------------------------------------------------------
(* The probe loops.  Attempt i looks at slot ht_get_hash(key, size, i).    *)
(* The sequence of slots repeats after size attempts, and a loop that has  *)
(* not left within size attempts sees the same slots again: it goes on     *)
(* until attempt * (hash_b + 1) no longer fits an int.                     *)

Slot(t, key, i) == t.items[ht_get_hash(key, t.size, i)]

\* item != &HT_DELETED_ITEM && strcmp(item->key, key) == 0, for item != NULL
Matches(item, key) == item # HT_DELETED_ITEM /\ item.key = key

\* A loop that also stops at the sentinel.
Leaves_at_sentinel(item, key) ==
    item = NULL \/ item = HT_DELETED_ITEM \/ item.key = key

\* while (item != NULL) { if (match) return ...; next attempt }
Leaves(item, key) == item = NULL \/ Matches(item, key)

LoopLeaves(t, key, i) == Leaves(Slot(t, key, i), key)

Terminates(t, key) == \E i \in 0..(t.size - 1) : LoopLeaves(t, key, i)

\* The attempt at which the loop of ht_insert or ht_search is left.
LastAttempt(t, key) ==
    CHOOSE i \in 0..(t.size - 1) :
        /\ LoopLeaves(t, key, i)
        /\ \A j \in 0..(i - 1) : ~LoopLeaves(t, key, j)

----------------------------------------------------------------------------
(* ht_insert and ht_resize call each other: ht_resize fills the transient  *)
(* table with ht_insert.  The inner call is ht_insert_new, the same code   *)
(* with its own rebuild cut off: a transient table whose load exceeds 70   *)
(* would be rebuilt in turn, and is reported as fault "nested".            *)

\* An end of ht_insert that returns on a match without storing the item.
insert_at_keeps_old(t, item, index) ==
    IF t.items[index] # NULL
    THEN Ret(t, "none", FALSE, <<>>)
    ELSE Ret([t EXCEPT !.items[index] = item, !.count = @ + 1],
             "none", FALSE, <<>>)

\* An end of ht_insert that counts the item on a match as well.
insert_at_counts_again(t, item, index) ==
    Ret([t EXCEPT !.items[index] = item, !.count = @ + 1], "none", FALSE, <<>>)

\* The end of ht_insert, at the slot where its loop was left.
insert_at(t, item, index) ==
    IF t.items[index] # NULL
    THEN Ret([t EXCEPT !.items[index] = item], "none", FALSE, <<>>)
    ELSE Ret([t EXCEPT !.items[index] = item, !.count = @ + 1],
             "none", FALSE, <<>>)

\* The while loop of ht_insert and what follows it.
insert_loop(t, item) ==
    IF ~Terminates(t, item.key) THEN Ret(t, "runaway", FALSE, <<>>)
    ELSE insert_at(t, item,
                   ht_get_hash(item.key, t.size, LastAttempt(t, item.key)))

ht_insert_new(new_ht, key, value) ==
    IF (new_ht.count * 100) \div new_ht.size > 70
    THEN Ret(new_ht, "nested", FALSE, <<>>)
    ELSE insert_loop(new_ht, ht_new_item(key, value))

\* A for loop of ht_resize that starts at i = 1.
migrate_slot_from_one(old, r, i) ==
    IF i # 0 /\ old.items[i] # NULL /\ old.items[i] # HT_DELETED_ITEM
    THEN ht_insert_new(r.ht, old.items[i].key, old.items[i].value)
    ELSE r

\* One round of the for loop of ht_resize: old slot i.
\* A migration that carries a tombstone over to the new slot array.
migrate_slot_keeps_sentinel(old, r, i) ==
    IF old.items[i] = NULL THEN r
    ELSE IF old.items[i] = HT_DELETED_ITEM
    THEN [r EXCEPT !.ht.items[i % r.ht.size] = HT_DELETED_ITEM]
    ELSE ht_insert_new(r.ht, old.items[i].key, old.items[i].value)

migrate_slot(old, r, i) ==
    IF old.items[i] # NULL /\ old.items[i] # HT_DELETED_ITEM
    THEN ht_insert_new(r.ht, old.items[i].key, old.items[i].value)
    ELSE r

\* The for loop of ht_resize over the old slots lo .. hi-1, in index order,
\* split in halves to keep the evaluation shallow.
RECURSIVE migrate(_, _, _, _)
migrate(old, r, lo, hi) ==
    IF r.fault # "none" \/ lo >= hi THEN r
    ELSE IF hi = lo + 1 THEN migrate_slot(old, r, lo)
    ELSE migrate(old, migrate(old, r, lo, (lo + hi) \div 2),
                 (lo + hi) \div 2, hi)

\* The end of ht_resize: the swap and the destruction of the transient
\* table m.ht, which has been filled.
swap(ht, new_ht) ==
    LET ht1       == [ht EXCEPT !.size = new_ht.size, !.count = new_ht.count]
        tmp_size  == ht1.size
        ht2       == [ht1 EXCEPT !.size = new_ht.size]
        new1      == [new_ht EXCEPT !.size = tmp_size]
        tmp_items == ht2.items
        ht3       == [ht2 EXCEPT !.items = new1.items]
        new2      == [new1 EXCEPT !.items = tmp_items]
    IN  [ht |-> ht3, new_ht |-> new2]

resize_end(ht, m, sw, d) ==
    IF m.fault # "none" THEN Ret(ht, m.fault, FALSE, <<>>)
    ELSE Ret(sw.ht, "none", d.oob # {} \/ d.sentinel # {},
             <<[from |-> ht.size, to |-> sw.ht.size]>>)

resize_swap(ht, m) ==
    resize_end(ht, m, swap(ht, m.ht), ht_del_hash_table(swap(ht, m.ht).new_ht))

\* An ht_resize without the test of base_size against the minimum.
ht_resize_unchecked(ht, base_size) ==
    resize_swap(ht, migrate(ht, Ret(ht_new_sized(base_size), "none",
                                    FALSE, <<>>), 0, ht.size))

ht_resize(ht, base_size) ==
    IF base_size < HT_INITIAL_BASE_SIZE THEN Ret(ht, "none", FALSE, <<>>)
    ELSE resize_swap(ht, migrate(ht, Ret(ht_new_sized(base_size), "none",
                                         FALSE, <<>>), 0, ht.size))

\* An ht_resize_up that asks for the bucket count the table has.
ht_resize_up_same_size(ht) == ht_resize(ht, ht.size)

ht_resize_up(ht) == ht_resize(ht, ht.size * 2)

ht_resize_down(ht) == ht_resize(ht, ht.size \div 2)

\* A call's result s after its rebuild request r.
After(r, s) == Ret(s.ht, s.fault, r.ub, r.log)

insert_rest(r, key, value) ==
    IF r.fault # "none" THEN r
    ELSE After(r, insert_loop(r.ht, ht_new_item(key, value)))

ht_insert(ht, key, value) ==
    insert_rest(IF (ht.count * 100) \div ht.size > 70 THEN ht_resize_up(ht)
                ELSE Ret(ht, "none", FALSE, <<>>),
                key, value)

\* ht_search: the value, or NULL ("(null)").
NullValue == "(null)"

search_at(item) ==
    IF item = NULL THEN [value |-> NullValue, fault |-> "none"]
    ELSE [value |-> item.value, fault |-> "none"]

ht_search(ht, key) ==
    IF ~Terminates(ht, key) THEN [value |-> NullValue, fault |-> "runaway"]
    ELSE search_at(Slot(ht, key, LastAttempt(ht, key)))

\* The while loop of ht_delete leaves only at a NULL slot: a match is
\* replaced by the sentinel, count is decremented and the walk goes on.
ReachesNull(t, key) == \E i \in 0..(t.size - 1) : Slot(t, key, i) = NULL

\* The attempts the walk makes before it leaves (all of a period if it
\* never does).
Walked(t, key) ==
    IF ReachesNull(t, key)
    THEN 0..((CHOOSE i \in 0..(t.size - 1) :
                 /\ Slot(t, key, i) = NULL
                 /\ \A j \in 0..(i - 1) : Slot(t, key, j) # NULL) - 1)
    ELSE 0..(t.size - 1)

\* A walk of ht_delete without the strcmp.
delete_hits_any_key(t, key) ==
    {ht_get_hash(key, t.size, i) :
        i \in {j \in Walked(t, key) : IsLive(Slot(t, key, j))}}

\* The slots holding the key among those the walk visits.
delete_hits(t, key) ==
    {ht_get_hash(key, t.size, i) :
        i \in {j \in Walked(t, key) : Matches(Slot(t, key, j), key)}}

\* An ht_delete that empties the slot instead of marking it.
delete_at_clears(t, hits, fault) ==
    Ret(IF hits = {} THEN t
        ELSE [t EXCEPT !.items = [i \in DOMAIN t.items |->
                                     IF i \in hits THEN NULL ELSE t.items[i]],
                       !.count = @ - Cardinality(hits)],
        fault, FALSE, <<>>)

\* An ht_delete without count--.
delete_at_keeps_count(t, hits, fault) ==
    Ret(IF hits = {} THEN t
        ELSE [t EXCEPT !.items = [i \in DOMAIN t.items |->
                                     IF i \in hits THEN HT_DELETED_ITEM
                                     ELSE t.items[i]]],
        fault, FALSE, <<>>)

delete_at(t, hits, fault) ==
    Ret(IF hits = {} THEN t
        ELSE [t EXCEPT !.items = [i \in DOMAIN t.items |->
                                     IF i \in hits THEN HT_DELETED_ITEM
                                     ELSE t.items[i]],
                       !.count = @ - Cardinality(hits)],
        fault, FALSE, <<>>)

delete_loop(t, key) ==
    delete_at(t, delete_hits(t, key),
              IF ReachesNull(t, key) THEN "none" ELSE "runaway")

delete_rest(r, key) ==
    IF r.fault # "none" THEN r ELSE After(r, delete_loop(r.ht, key))

ht_delete(ht, key) ==
    delete_rest(IF (ht.count * 100) \div ht.size < 10 THEN ht_resize_down(ht)
                ELSE Ret(ht, "none", FALSE, <<>>),
                key)

----------------------------------------------------------------------------
(* The caller.  Keys are two lower-case letters: the bulk keys B(0) = "ba",*)
(* B(1) = "bb", ... in index order, and two more keys, "ok" and "hh",      *)
(* which both hash to slot 48 of a 53-slot table, as does B(12) = "bm";    *)
(* the second hash of "hh" is 52, the largest a 53-slot table can give.    *)
(***************************************************************************)

B(n) == <<98 + (n \div 26), 97 + (n % 26)>>

KeyOk == <<111, 107>>

KeyHh == <<104, 104>>

Hot == {KeyOk}

ChurnKeys == {KeyOk, KeyHh}

Values == {"dog", "cat"}

BulkValue == "dog"

\* Every key a caller uses, and B(MaxBulk), which no caller ever inserts.
Keys == ChurnKeys \cup {B(n) : n \in 0..MaxBulk}

Absent == "(absent)"

VARIABLES
    ht,      \* the table the caller holds
    status,  \* "running", or how the last call ended the run: "hung",
             \* "crashed", "undefined", "unmodelled" (a nested rebuild),
             \* or "destroyed" (the table is gone)
    map,     \* what the caller has stored: key -> value
    last,    \* the last call issued and what it returned
    grows,   \* rebuilds to a larger table minus rebuilds to a smaller one
    fill,    \* how many bulk keys the caller inserts before it drains
    nb,      \* bulk keys B(0..nb-1) have been inserted
    nd,      \* bulk keys B(0..nd-1) have been deleted
    hd,      \* hot-key deletions issued
    pr       \* a probe sequence being computed on its own, or NoProbe

vars == <<ht, status, map, last, grows, fill, nb, nd, hd, pr>>

NoProbe == [key |-> <<>>, m |-> HT_INITIAL_BASE_SIZE, hashed |-> FALSE,
            hash_a |-> 0, hash_b |-> 0, attempt |-> 0, seen |-> <<>>]

\* The table and the caller at the start.
StartTable(n) ==
    /\ ht = ht_new
    /\ status = "running"
    /\ map = <<>>
    /\ last = [op |-> "new", key |-> <<>>, value |-> "", old |-> Absent,
               ret |-> NullValue, resize |-> "none"]
    /\ grows = 0
    /\ fill = n
    /\ nb = 0
    /\ nd = 0
    /\ hd = 0

Start(n) == StartTable(n) /\ pr = NoProbe

Init == Start(MaxFill)

Load(t) == (t.count * 100) \div t.size

Stored(k) == IF k \in DOMAIN map THEN map[k] ELSE Absent

\* What the rebuild request of a call came to.
ResizeOf(op, t, r) ==
    IF r.log # <<>>
    THEN (IF r.log[Len(r.log)].to > r.log[Len(r.log)].from THEN "grown"
          ELSE "shrunk")
    ELSE IF op = "delete" /\ Load(t) < 10 /\ r.fault = "none" THEN "refused"
    ELSE "none"

RECURSIVE Delta(_)
Delta(log) ==
    IF log = <<>> THEN 0
    ELSE (IF Head(log).to > Head(log).from THEN 1 ELSE -1) + Delta(Tail(log))

\* How a call can end.  A probe loop that never meets its exit condition
\* keeps counting attempts until attempt * (hash_b + 1) overflows int, which
\* is undefined: the call spins, or the process dies, or the call returns
\* after reading and writing outside the slot array.  A rebuild that reads
\* outside the old slot array or hands the sentinel to the item destructor
\* kills the process or happens to get away with it.
Outcomes(r) ==
    IF r.fault = "runaway" THEN {"hung", "crashed", "undefined"}
    ELSE IF r.fault = "nested" THEN {"unmodelled"}
    ELSE IF r.ub THEN {"running", "crashed"}
    ELSE {"running"}

\* The effect of one call with result r on the caller's state.
Call(op, k, v, r, ret, newmap) ==
    /\ status = "running"
    /\ ht' = r.ht
    /\ status' \in Outcomes(r)
    /\ map' = IF status' = "running" THEN newmap ELSE map
    /\ last' = [op |-> op, key |-> k, value |-> v, old |-> Stored(k),
                ret |-> IF status' = "running" THEN ret ELSE NullValue,
                resize |-> ResizeOf(op, ht, r)]
    /\ grows' = grows + Delta(r.log)
    /\ fill' = fill
    /\ pr' = pr

Put(k, v) == [x \in DOMAIN map \cup {k} |-> IF x = k THEN v ELSE map[x]]

Drop(k) == [x \in DOMAIN map \ {k} |-> map[x]]

Insert(k, v) ==
    \E r \in {ht_insert(ht, k, v)} :
        Call("insert", k, v, r, NullValue, Put(k, v))

Search(k) ==
    \E s \in {ht_search(ht, k)} :
        Call("search", k, "", Ret(ht, s.fault, FALSE, <<>>), s.value, map)

Delete(k) ==
    \E r \in {ht_delete(ht, k)} :
        Call("delete", k, "", r, NullValue, Drop(k))

\* Fill, then drain: the bulk keys go in in index order and, once all are
\* in, come out in index order; the newest bulk key may be inserted again;
\* the hot key is used at any time, with at most MaxHotDel deletions.
HotInsert ==
    \E k \in Hot, v \in Values : Insert(k, v) /\ UNCHANGED <<nb, nd, hd>>

HotDelete ==
    /\ hd < MaxHotDel
    /\ \E k \in Hot : Delete(k)
    /\ hd' = hd + 1
    /\ UNCHANGED <<nb, nd>>

HotSearch == \E k \in Hot : Search(k) /\ UNCHANGED <<nb, nd, hd>>

BulkInsert ==
    /\ nb < fill
    /\ Insert(B(nb), BulkValue)
    /\ nb' = nb + 1
    /\ UNCHANGED <<nd, hd>>

BulkAgain ==
    /\ 0 < nb
    /\ nd < nb
    /\ Insert(B(nb - 1), BulkValue)
    /\ UNCHANGED <<nb, nd, hd>>

BulkDelete ==
    /\ nb = fill
    /\ nd < nb
    /\ Delete(B(nd))
    /\ nd' = nd + 1
    /\ UNCHANGED <<nb, hd>>

Next ==
    \/ HotInsert
    \/ HotDelete
    \/ HotSearch
    \/ BulkInsert
    \/ BulkAgain
    \/ BulkDelete

Spec == Init /\ [][Next]_vars

\* A long fill and drain of bulk keys alone, with searches of the oldest
\* bulk key still stored and of the next one to be inserted.
InitDeep == Start(MaxBulk)

DeepInsert ==
    /\ nb < fill
    /\ Insert(B(nb), BulkValue)
    /\ nb' = nb + 1
    /\ UNCHANGED <<nd, hd>>

DeepDelete ==
    /\ nb = fill
    /\ nd < nb
    /\ Delete(B(nd))
    /\ nd' = nd + 1
    /\ UNCHANGED <<nb, hd>>

DeepSearch == \E k \in {B(nd), B(nb)} : Search(k) /\ UNCHANGED <<nb, nd, hd>>

NextDeep == DeepInsert \/ DeepDelete \/ DeepSearch

SpecDeep == InitDeep /\ [][NextDeep]_vars

\* Churn at minimum capacity: "ok" and "hh" alone, inserted and deleted
\* without limit.
ChurnInsert ==
    \E k \in ChurnKeys, v \in Values :
        Insert(k, v) /\ UNCHANGED <<nb, nd, hd>>

ChurnDelete == \E k \in ChurnKeys : Delete(k) /\ UNCHANGED <<nb, nd, hd>>

ChurnSearch == \E k \in ChurnKeys : Search(k) /\ UNCHANGED <<nb, nd, hd>>

\* The caller ends with ht_del_hash_table, as main does.  Handing the
\* sentinel, which is no heap object, to ht_del_item is undefined: the
\* allocator aborts the process or lets it pass.
Destroy(d) ==
    /\ status = "running"
    /\ status' \in (IF d.oob # {} \/ d.sentinel # {}
                    THEN {"destroyed", "crashed"} ELSE {"destroyed"})
    /\ last' = [op |-> "destroy", key |-> <<>>, value |-> "", old |-> Absent,
                ret |-> NullValue, resize |-> "none"]
    /\ UNCHANGED <<ht, map, grows, fill, nb, nd, hd, pr>>

ChurnDestroy == \E d \in {ht_del_hash_table(ht)} : Destroy(d)

NextChurn == ChurnInsert \/ ChurnDelete \/ ChurnSearch \/ ChurnDestroy

SpecChurn == Init /\ [][NextChurn]_vars

\* The probe sequence by itself: ht_get_hash's return expression for hash
\* values hash_a and hash_b and the attempts 0, 1, ... of one walk.
ProbeSizes ==
    {m \in 2..MaxProbePrime : is_prime(m)} \cup {HT_INITIAL_BASE_SIZE}

ProbeStarts(m) == IF m <= MaxProbePrime THEN 0..(m - 1) ELSE {0, m - 1}

InitProbe ==
    /\ StartTable(0)
    /\ \E m \in ProbeSizes :
           \E a \in ProbeStarts(m), b \in 0..(m - 1) :
               pr = [key |-> <<>>, m |-> m, hashed |-> TRUE, hash_a |-> a,
                     hash_b |-> b, attempt |-> 0, seen |-> <<>>]

ProbeNext ==
    /\ pr.hashed
    /\ pr.key = <<>>
    /\ pr.attempt < pr.m
    /\ pr' = [pr EXCEPT !.attempt = @ + 1,
                        !.seen = Append(@, probe_index(pr.hash_a, pr.hash_b,
                                                       pr.attempt, pr.m))]
    /\ UNCHANGED <<ht, status, map, last, grows, fill, nb, nd, hd>>

NextProbe == ProbeNext

SpecProbe == InitProbe /\ [][NextProbe]_vars

----------------------------------------------------------------------------
(* ht_hash and ht_get_hash on keys of one or two characters.  s[i] is a    *)
(* char: a byte above 127 is that number where char is unsigned and that   *)
(* number less 256 where char is signed, as the build has it.              *)

CharOf(byte, is_signed) ==
    IF is_signed /\ byte > 127 THEN byte - 256 ELSE byte

\* 'a', 'z' and 0xC3, the first byte of a two-byte UTF-8 letter.
HashBytes == {97, 122, 195}

HashChars == {CharOf(b, sg) : b \in HashBytes, sg \in BOOLEAN}

HashKeys == {<<c>> : c \in HashChars} \cup (HashChars \X HashChars)

\* The bucket counts of a table that grows twice and shrinks back.
HashSizes ==
    LET s0 == HT_INITIAL_BASE_SIZE
        s1 == next_prime(s0 * 2)
        s2 == next_prime(s1 * 2)
        s3 == next_prime(s2 \div 2)
        s4 == next_prime(s3 \div 2)
    IN  {s0, s1, s2, s3, s4}

InitHash ==
    /\ StartTable(0)
    /\ \E k \in HashKeys, m \in HashSizes :
           pr = [key |-> k, m |-> m, hashed |-> FALSE, hash_a |-> 0,
                 hash_b |-> 0, attempt |-> 0, seen |-> <<>>]

\* The two calls of ht_hash in ht_get_hash.
HashKey ==
    /\ ~pr.hashed
    /\ pr.key # <<>>
    /\ pr' = [pr EXCEPT !.hashed = TRUE,
                        !.hash_a = ht_hash(pr.key, HT_PRIME_1, pr.m),
                        !.hash_b = ht_hash(pr.key, HT_PRIME_2, pr.m)]
    /\ UNCHANGED <<ht, status, map, last, grows, fill, nb, nd, hd>>

\* ht_get_hash for the next attempt.
HashProbe ==
    /\ pr.hashed
    /\ pr.key # <<>>
    /\ pr.attempt < pr.m
    /\ pr' = [pr EXCEPT !.attempt = @ + 1,
                        !.seen = Append(@, ht_get_hash(pr.key, pr.m,
                                                       pr.attempt))]
    /\ UNCHANGED <<ht, status, map, last, grows, fill, nb, nd, hd>>

NextHash == HashKey \/ HashProbe

SpecHash == InitHash /\ [][NextHash]_vars

----------------------------------------------------------------------------
(* Properties.  A property about what calls return or leave behind speaks  *)
(* of runs that are still going on: after a call that ran away or a        *)
(* rebuild that killed the process there is no table to speak of.          *)

Running == status = "running"

Live(t) == {i \in DOMAIN t.items : IsLive(t.items[i])}

Tombstones(t) == {i \in DOMAIN t.items : t.items[i] = HT_DELETED_ITEM}

\* The live (key, value) pairs of a table.
Content(t) == {<<t.items[i].key, t.items[i].value>> : i \in Live(t)}

Found(v) == [value |-> v, fault |-> "none"]

\* Keys that need not be stored: "ok" and "hh", and a key that is never
\* inserted.
Unstored == ChurnKeys \cup {B(MaxBulk)}

\* The keys whose search results are compared: the stored ones and those.
Watched == DOMAIN map \cup Unstored

\* Searches of key k in tables t and u that both return, return the same.
SameSearch(t, u, k) ==
    (ht_search(t, k).fault = "none" /\ ht_search(u, k).fault = "none")
        => ht_search(t, k) = ht_search(u, k)

\* C1: while the run goes on, ht_search of every key the caller has stored
\* (inserted and not deleted since) returns the value of the most recent
\* insert, the live pairs of the table are exactly the caller's map, and a
\* search just made of a stored key returned that value.
C1_SearchReturnsLatest ==
    Running =>
        /\ \A k \in DOMAIN map : ht_search(ht, k) = Found(map[k])
        /\ Content(ht) = {<<k, map[k]>> : k \in DOMAIN map}
        /\ (last.op = "search" /\ last.key \in DOMAIN map
                => last.ret = map[last.key])

\* A search that returned an overwritten value after the table has grown
\* and shrunk back.
C1_Witness ==
    /\ Running
    /\ last.op = "search"
    /\ last.ret = "cat"
    /\ nd > 0
    /\ ht.size = HT_INITIAL_BASE_SIZE

\* C2 (as stated): while the run goes on, ht_search of every key that is
\* not stored (never inserted, or deleted last) returns NULL, and a search
\* just made of such a key returned NULL.
C2_AbsentKeyNotFound ==
    /\ Running => \A k \in Keys \ DOMAIN map : ht_search(ht, k) = Found(NullValue)
    /\ (last.op = "search" /\ last.old = Absent)
           => Running /\ last.ret = NullValue

\* C3: while the run goes on, count is the number of slots holding a live
\* item, which is the number of keys inserted and not deleted.
C3_CountIsLive ==
    Running =>
        /\ ht.count = Cardinality(Live(ht))
        /\ ht.count = Cardinality(DOMAIN map)

\* A delete of a stored key that rebuilt the table smaller and left keys.
C3_Witness ==
    /\ Running
    /\ last.op = "delete"
    /\ last.old # Absent
    /\ last.resize = "shrunk"
    /\ ht.count > 0

\* What a rebuild with result r does to table t.
Preserves(t, r) ==
    /\ r.fault = "none"
    /\ r.log # <<>> =>
        /\ r.ht.size # t.size
        /\ Content(r.ht) = Content(t)
        /\ r.ht.count = t.count
        /\ \A k \in DOMAIN map : ht_search(r.ht, k) = ht_search(t, k)

\* C4: in every state of a run that goes on, the rebuild that ht_insert
\* (load above 70) or ht_delete (load below 10) would start with completes
\* its migration and yields a table with the same live pairs, the same
\* count and the same search result for every stored key.
C4_RebuildPreservesContent ==
    Running =>
        /\ Load(ht) > 70 => /\ Preserves(ht, ht_resize_up(ht))
                            /\ ht_resize_up(ht).log # <<>>
        /\ Load(ht) < 10 => Preserves(ht, ht_resize_down(ht))

\* The table just rebuilt smaller, after having been rebuilt larger, with
\* every stored key retrievable.
C4_Witness ==
    /\ Running
    /\ last.resize = "shrunk"
    /\ map # <<>>
    /\ \A k \in DOMAIN map : ht_search(ht, k) = Found(map[k])

\* C5 (as stated): every call returns: in every state the probe loops of
\* ht_insert, ht_search and ht_delete meet their exit condition for every
\* key, and no call has run away.
C5_EveryCallTerminates ==
    /\ status \notin {"hung", "crashed", "undefined"}
    /\ \A k \in Keys : Terminates(ht, k) /\ ReachesNull(ht, k)

\* C6: while the run goes on, no two live slots hold the same key.
C6_NoDuplicateKeys ==
    Running =>
        \A i, j \in Live(ht) : ht.items[i].key = ht.items[j].key => i = j

\* An insert of a stored key whose probe sequence meets a tombstone before
\* the slot of the key.
C6_Witness ==
    /\ Running
    /\ last.op = "insert"
    /\ last.old # Absent
    /\ \E i \in 0..(LastAttempt(ht, last.key) - 1) :
           Slot(ht, last.key, i) = HT_DELETED_ITEM

\* The sizing policy of the specification: the smallest prime not below
\* the minimum capacity doubled k times.
capacity_for(k) == next_prime(HT_INITIAL_BASE_SIZE * 2 ^ k)

\* C7 (as stated): the bucket count is prime and is capacity_for(k), k
\* being the number of rebuilds to a larger table minus the number of
\* rebuilds to a smaller one.
C7_SizePolicy ==
    /\ is_prime(ht.size)
    /\ grows >= 0
    /\ ht.size = capacity_for(grows)

\* An insert that returned, of a key that was stored.
C8_Step ==
    (/\ status = "running" /\ status' = "running"
     /\ last'.op = "insert"
     /\ last'.key \in DOMAIN map)
    => /\ ht'.count = ht.count
       /\ ht_search(ht', last'.key) = Found(last'.value)
       /\ Content(ht') = (Content(ht) \ {<<last'.key, map[last'.key]>>})
                              \cup {<<last'.key, last'.value>>}
       /\ \A k \in Unstored \ {last'.key} : SameSearch(ht', ht, k)
       /\ IF last'.resize = "none"
          THEN /\ ht'.size = ht.size
               /\ \A i \in DOMAIN ht.items :
                      \/ ht'.items[i] = ht.items[i]
                      \/ /\ ht.items[i].key = last'.key
                         /\ ht'.items[i] = ht_new_item(last'.key, last'.value)
          ELSE \A k \in DOMAIN map \ {last'.key} : SameSearch(ht', ht, k)
       /\ map[last'.key] = last'.value =>
              /\ Content(ht') = Content(ht)
              /\ ht_search(ht', last'.key) = ht_search(ht, last'.key)

\* C8: an ht_insert of a key that is stored leaves count as it was, makes
\* ht_search of the key return the new value and changes no other live
\* pair: without a rebuild every slot but the one of the key is untouched,
\* with a rebuild every search of another stored key returns what it
\* returned, and the searches of keys that need not be stored return what
\* they returned whenever they return; with the value the key already has
\* the insert changes no live pair and no search result at all.
C8_ReplaceKeepsCount == [][C8_Step]_vars

\* A second insert of the same key and value that rebuilt the table larger.
C8_Witness ==
    /\ Running
    /\ last.op = "insert"
    /\ last.old = last.value
    /\ last.resize = "grown"

\* A delete that returned, of a key that was not stored.
C9_Step ==
    (/\ status = "running" /\ status' = "running"
     /\ last'.op = "delete"
     /\ last'.key \notin DOMAIN map)
    => /\ ht'.count = ht.count
       /\ Content(ht') = Content(ht)
       /\ \A k \in Watched : SameSearch(ht', ht, k)
       /\ Tombstones(ht') = IF last'.resize = "shrunk" THEN {}
                            ELSE Tombstones(ht)

\* C9: an ht_delete of a key that is not stored leaves count, the live
\* pairs and the result of every search that returns as they were, and
\* turns no slot into a tombstone (a rebuild it starts with leaves no
\* tombstone at all).
C9_DeleteAbsentIsNoOp == [][C9_Step]_vars

\* A delete of a key that is not stored, which rebuilt the table smaller.
C9_Witness ==
    /\ Running
    /\ last.op = "delete"
    /\ last.old = Absent
    /\ last.resize = "shrunk"

\* C10: the bucket count is never below HT_INITIAL_BASE_SIZE, and ht_resize
\* with a base size below it returns the table as it is: size, count and
\* every slot, tombstones included; this is what ht_delete's request comes
\* to when half the bucket count is below the minimum.
C10_MinimumCapacity ==
    /\ ht.size >= HT_INITIAL_BASE_SIZE
    /\ \A b \in 0..(HT_INITIAL_BASE_SIZE - 1) :
           ht_resize(ht, b) = Ret(ht, "none", FALSE, <<>>)
    /\ ht.size \div 2 < HT_INITIAL_BASE_SIZE =>
           ht_resize_down(ht) = Ret(ht, "none", FALSE, <<>>)

\* A delete whose rebuild request was refused, on a table that has grown
\* and shrunk back and holds tombstones.
C10_Witness ==
    /\ Running
    /\ last.resize = "refused"
    /\ nd > 0
    /\ Tombstones(ht) # {}

\* C11 (as stated): ht_del_hash_table applied to the table of any state
\* of a run that goes on hands to ht_del_item exactly the live items, each
\* once, never the sentinel, reads no slot outside the array and leaves no
\* item behind; and a caller that has destroyed its table has a process
\* that is still alive.
C11_DestroyReleasesOwned ==
    /\ Running =>
        LET d == ht_del_hash_table(ht)
        IN  /\ d.sentinel = {}
            /\ d.oob = {}
            /\ d.leaked = {}
            /\ d.released = Live(ht)
    /\ last.op = "destroy" => status = "destroyed"

\* C12: while the run goes on, every live key sits at a slot that its
\* probe sequence reaches at some attempt j, and no slot the sequence
\* reaches before attempt j is NULL.
C12_ProbeInvariant ==
    Running =>
        \A i \in Live(ht) :
            \E j \in 0..(ht.size - 1) :
                /\ ht_get_hash(ht.items[i].key, ht.size, j) = i
                /\ \A a \in 0..(j - 1) : Slot(ht, ht.items[i].key, a) # NULL

\* A delete has left a tombstone at the first slot of the probe sequence
\* of a key that is live further on.
C12_Witness ==
    /\ Running
    /\ last.op = "delete"
    /\ last.old # Absent
    /\ \E i \in Live(ht) : Slot(ht, ht.items[i].key, 0) = HT_DELETED_ITEM

\* C13 (as stated): in every state the slot array has a NULL slot.
C13_SomeSlotEmpty == \E i \in DOMAIN ht.items : ht.items[i] = NULL

\* C14 (as stated): the probe indices of the attempts made so far in one
\* walk are pairwise distinct, and after as many attempts as there are
\* buckets every slot has been visited.
C14_ProbesDistinct ==
    /\ \A a, b \in 1..Len(pr.seen) : a # b => pr.seen[a] # pr.seen[b]
    /\ Len(pr.seen) = pr.m =>
           {pr.seen[a] : a \in 1..Len(pr.seen)} = 0..(pr.m - 1)

\* C15 (as stated): an ht_insert that has returned has put its key at the
\* first slot in probe order that was empty, a tombstone or held the key:
\* every slot the probe sequence reaches before the slot of the key holds
\* a live item with another key, none a tombstone.
C15_InsertReusesTombstone ==
    (Running /\ last.op = "insert") =>
        \A a \in 0..(LastAttempt(ht, last.key) - 1) :
            /\ IsLive(Slot(ht, last.key, a))
            /\ Slot(ht, last.key, a).key # last.key

\* What a rebuild that ran leaves: no tombstone, and count live items.
Purged(r) ==
    (r.fault = "none" /\ r.log # <<>>) =>
        /\ Tombstones(r.ht) = {}
        /\ Cardinality(Live(r.ht)) = r.ht.count
        /\ \A i \in DOMAIN r.ht.items \ Live(r.ht) : r.ht.items[i] = NULL

C16_Step ==
    /\ Running =>
        /\ Load(ht) > 70 => Purged(ht_resize_up(ht))
        /\ Load(ht) < 10 => Purged(ht_resize_down(ht))
    /\ last'.resize \in {"none", "refused"} =>
        /\ DOMAIN ht'.items = DOMAIN ht.items
        /\ \A i \in DOMAIN ht.items :
               ht.items[i] # NULL => ht'.items[i] # NULL

\* C16: the rebuild that ht_insert (load above 70) or ht_delete (load below
\* 10) starts with leaves a slot array with no tombstone and exactly count
\* live items, and a call that does not rebuild leaves every slot that was
\* occupied or a tombstone occupied or a tombstone: no slot becomes empty
\* again outside a rebuild.
C16_TombstoneLifecycle == [][C16_Step]_vars

\* A delete that rebuilt a table holding the tombstones of earlier deletes
\* smaller: the only tombstone left is the one of the key just deleted.
C16_Witness ==
    /\ Running
    /\ last.op = "delete"
    /\ last.resize = "shrunk"
    /\ nd > 1
    /\ Cardinality(Tombstones(ht)) = 1

\* The end of an ht_resize of t to base_size as the claim has it: the
\* transient table that is destroyed is the old slot array with the old
\* bucket count, no slot outside the array is read, no old item is left
\* unreleased, and t has the new array, bucket count and count.
SwapsWhole(t, base_size) ==
    LET m  == migrate(t, Ret(ht_new_sized(base_size), "none", FALSE, <<>>),
                      0, t.size)
        sw == swap(t, m.ht)
        d  == ht_del_hash_table(sw.new_ht)
    IN  m.fault = "none" =>
            /\ sw.new_ht.items = t.items
            /\ sw.new_ht.size = t.size
            /\ d.oob = {}
            /\ d.leaked = {}
            /\ sw.ht.items = m.ht.items
            /\ sw.ht.size = m.ht.size
            /\ sw.ht.count = Cardinality(Live(t))

\* C17 (as stated): whenever ht_insert (load above 70) or ht_delete (load
\* below 10, half the bucket count not below the minimum) starts a rebuild,
\* the transient table destroyed at the end of ht_resize holds the old slot
\* array with the old bucket count, so that its destruction reads no index
\* outside the old array and leaves no old item unreleased, and the table
\* of the caller has the new array, the new bucket count and a count equal
\* to the number of migrated items.
C17_TransientHoldsOldTable ==
    Running =>
        /\ Load(ht) > 70 => SwapsWhole(ht, ht.size * 2)
        /\ (Load(ht) < 10 /\ ht.size \div 2 >= HT_INITIAL_BASE_SIZE)
               => SwapsWhole(ht, ht.size \div 2)

\* C18 (as stated): in every state of a run that goes on, the next
\* ht_insert rebuilds, to a strictly larger bucket count, exactly when the
\* load is above 70, the next ht_delete rebuilds, to a strictly smaller
\* bucket count, exactly when the load is below 10 and the bucket count is
\* above the minimum capacity, either does so before its probe walk and at
\* most once, and no migration starts a rebuild of its own.
C18_ResizeTriggers ==
    Running =>
        LET i == ht_insert(ht, B(nb), BulkValue)
            d == ht_delete(ht, B(nd))
        IN  /\ i.fault # "nested" /\ d.fault # "nested"
            /\ Len(i.log) <= 1 /\ Len(d.log) <= 1
            /\ (i.log # <<>>) <=> (Load(ht) > 70)
            /\ i.log # <<>> =>
                /\ i.log[1].to > i.log[1].from
                /\ i.ht = insert_loop(ht_resize_up(ht).ht,
                                      ht_new_item(B(nb), BulkValue)).ht
            /\ (d.log # <<>>) <=>
                   (Load(ht) < 10 /\ ht.size > HT_INITIAL_BASE_SIZE)
            /\ d.log # <<>> =>
                /\ d.log[1].to < d.log[1].from
                /\ d.ht = delete_loop(ht_resize_down(ht).ht, B(nd)).ht

\* The table on which the probe walk of an ht_insert on t starts.
WalkStart(t) ==
    IF Load(t) > 70 THEN ht_resize_up(t) ELSE Ret(t, "none", FALSE, <<>>)

\* C19: in every state of a run that goes on, the live count is strictly
\* below the bucket count, and the next ht_insert starts its probe walk,
\* after its rebuild if the load is above 70, on a table with a load of at
\* most 70: one doubling is enough.
C19_LiveLoadBound ==
    Running =>
        /\ ht.count < ht.size
        /\ Cardinality(Live(ht)) < ht.size
        /\ WalkStart(ht).fault = "none"
        /\ Load(WalkStart(ht).ht) <= 70

\* An insert that rebuilt the table larger for the second time and left it
\* less than half full.
C19_Witness ==
    /\ Running
    /\ last.op = "insert"
    /\ last.resize = "grown"
    /\ grows = 2
    /\ Load(ht) < 50

\* C20 (as stated): for every key and every reachable bucket count m, both
\* hashes of the key are in 0 .. m-1, and so is every probe index that
\* ht_get_hash computes for the attempts 0 .. m-1.
C20_HashInRange ==
    pr.key # <<>> =>
        /\ pr.hashed => /\ pr.hash_a \in 0..(pr.m - 1)
                        /\ pr.hash_b \in 0..(pr.m - 1)
        /\ \A a \in 1..Len(pr.seen) : pr.seen[a] \in 0..(pr.m - 1)

=============================================================================
